---- MODULE Spec2Model ----
(***************************************************************************)
(* cloudflare-ddns: the reconciliation loop of src/src/main.rs.            *)
(*                                                                         *)
(* One run of main() is modelled from the point where the configuration    *)
(* has been parsed: address determination, the zone-list fetch, and the    *)
(* three nested loops over configured zones, configured labels and the     *)
(* records selected for a label.  The provider (Cloudflare) is the         *)
(* environment: every call gets a nondeterministically chosen response.    *)
(* Strings are TLA+ strings; IP addresses are values distinct from their   *)
(* textual forms, so that parsing and formatting are real conversions.     *)
(*                                                                         *)
(* Left out: the --version and --configuration flags and the exits 100 and *)
(* 101 (before the configuration exists), and the exits 103, 104, 108 and  *)
(* 112 on a URL that cannot be built (Url::parse and Url::join of the      *)
(* fixed base with a zone or record id).  main.rs reads record.type_ as a  *)
(* string and record.content; the model follows main.rs where              *)
(* structs/cloudflare.rs differs.                                          *)
(***************************************************************************)
EXTENDS Integers, Sequences, FiniteSets, TLC

\* ------------------------------------------------------------------ bounds

\* Most labels a configuration lists, over all its zones.
MaxLabels == 2

\* ------------------------------------------------------- values and text

\* Option and Result: None and Err(_) are the empty sequence, Some(x) and
\* Ok(x) the sequence holding x.
None == <<>>
Some(x) == <<x>>
IsSome(o) == o # <<>>
Unwrap(o) == o[1]

V4(a, b, c, d) == [fam |-> "V4", addr |-> <<a, b, c, d>>]
V6(lo) == [fam |-> "V6", addr |-> <<0, 0, 0, 0, 0, 0, 0, lo>>]

\* std::net::IpAddr::from_str on the textual contents the model uses: the
\* result is Ok(address) or Err.  Two texts denote the same IPv6 address;
\* a leading zero or a non-address text does not parse.
IpAddr_from_str(s) ==
    CASE s = "1.1.1.1" -> Some(V4(1, 1, 1, 1))
      [] s = "2.2.2.2" -> Some(V4(2, 2, 2, 2))
      [] s = "::1" -> Some(V6(1))
      [] s = "0:0:0:0:0:0:0:1" -> Some(V6(1))
      [] s = "::2" -> Some(V6(2))
      [] OTHER -> None

\* Display of an IpAddr (what format!("{}", ip) prints and what serde writes
\* into the patch payload): the canonical text.
IpAddr_to_string(ip) ==
    CASE ip = V4(1, 1, 1, 1) -> "1.1.1.1"
      [] ip = V4(2, 2, 2, 2) -> "2.2.2.2"
      [] ip = V6(1) -> "::1"
      [] ip = V6(2) -> "::2"

\* str::to_uppercase on the record types the model uses.
to_uppercase(s) ==
    CASE s = "a" -> "A"
      [] s = "aaaa" -> "AAAA"
      [] s = "Aaaa" -> "AAAA"
      [] s = "txt" -> "TXT"
      [] OTHER -> s

\* ---------------------------------------------------------------- inputs

\* Zone names a configuration may name; "c.io" is no zone of the provider.
ConfigZoneNames == {"a.io", "b.io", "c.io"}

\* Labels a configuration may list under a zone.
ConfigLabels == {"@", "w"}

\* The provider's zone list (ListZone: id, name).  Two zones carry the same
\* name: obtain_zone takes the first.
ProviderZones ==
    << [id |-> "z1", name |-> "a.io"],
       [id |-> "z2", name |-> "b.io"],
       [id |-> "z3", name |-> "a.io"] >>

\* The provider's records (ListDnsRecords: id, name, type_, zone_id), in
\* listing order.  Their content is the variable `content`.
ProviderRecords ==
    << [id |-> "r1", name |-> "a.io",   type_ |-> "A",    zone_id |-> "z1"],
       [id |-> "r2", name |-> "w.a.io", type_ |-> "aaaa", zone_id |-> "z1"],
       [id |-> "r3", name |-> "w.a.io", type_ |-> "A",    zone_id |-> "z1"],
       [id |-> "r4", name |-> "w.a.io", type_ |-> "TXT",  zone_id |-> "z1"],
       [id |-> "r5", name |-> "W.a.io", type_ |-> "A",    zone_id |-> "z1"],
       [id |-> "r6", name |-> "b.io",   type_ |-> "AAAA", zone_id |-> "z2"],
       [id |-> "r7", name |-> "a.io",   type_ |-> "A",    zone_id |-> "z3"] >>

RecordIds == {ProviderRecords[i].id : i \in 1..Len(ProviderRecords)}

\* The provider's record contents before the first run.
InitialContent ==
    [r \in RecordIds |->
        CASE r = "r1" -> "2.2.2.2"
          [] r = "r2" -> "0:0:0:0:0:0:0:1"
          [] r = "r3" -> "1.1.1.1"
          [] r = "r4" -> "v=spf1"
          [] r = "r5" -> "2.2.2.2"
          [] r = "r6" -> "1.1.1.01"
          [] r = "r7" -> "2.2.2.2"]

\* What determine_ip may return for each family.
Ipv4Results == {None, Some(<<1, 1, 1, 1>>), Some(<<2, 2, 2, 2>>)}
Ipv6Results == {None, Some(<<0, 0, 0, 0, 0, 0, 0, 1>>), Some(<<0, 0, 0, 0, 0, 0, 0, 2>>)}

IpAddrV4(ip) == [fam |-> "V4", addr |-> ip]
IpAddrV6(ip) == [fam |-> "V6", addr |-> ip]

\* Sequences over S of length 0..n.
SeqUpTo(S, n) == UNION {[1..k -> S] : k \in 0..n}

\* The orders keys() may yield the configured zone names in: the sequences
\* of distinct zone names.
KeyOrders ==
    {o \in SeqUpTo(ConfigZoneNames, Cardinality(ConfigZoneNames)) :
        \A i, j \in 1..Len(o) : o[i] = o[j] => i = j}

RECURSIVE TotalLabels(_)
TotalLabels(c) ==
    IF c = <<>> THEN 0 ELSE Len(c[1].labels) + TotalLabels(Tail(c))

\* config.records: zone name -> labels (a sequence, duplicates allowed), as
\* the sequence of its entries in the order keys() yields them.
Configs ==
    {c \in UNION {[1..Len(o) -> [zone : ConfigZoneNames, labels : SeqUpTo(ConfigLabels, MaxLabels)]] :
                    o \in KeyOrders} :
        /\ [i \in 1..Len(c) |-> c[i].zone] \in KeyOrders
        /\ TotalLabels(c) <= MaxLabels}

\* ------------------------------------------------------------- responses

\* What api_get / api_patch hand back: Err (the request failed in transport)
\* or a Response with an HTTP status, a body that is or is not a Cloudflare
\* envelope, the envelope's success flag, and a result that does or does not
\* decode into the expected vector.
TransportErr == [transport |-> FALSE, http |-> FALSE, envelope |-> FALSE, success |-> FALSE, result |-> FALSE]

Responses ==
    { TransportErr,
      [transport |-> TRUE, http |-> FALSE, envelope |-> TRUE,  success |-> TRUE,  result |-> TRUE],
      [transport |-> TRUE, http |-> TRUE,  envelope |-> FALSE, success |-> FALSE, result |-> FALSE],
      [transport |-> TRUE, http |-> TRUE,  envelope |-> TRUE,  success |-> FALSE, result |-> TRUE],
      [transport |-> TRUE, http |-> TRUE,  envelope |-> TRUE,  success |-> TRUE,  result |-> FALSE],
      [transport |-> TRUE, http |-> TRUE,  envelope |-> TRUE,  success |-> TRUE,  result |-> TRUE] }

\* The body of a PATCH answer holds one record, which main never decodes.
PatchResponses == {r \in Responses : r.result = r.envelope}

is_http_success(response) == response.http

\* Mutant: the envelope's success flag is not looked at.
deserialize_response_noflag(response) ==
    IF ~is_http_success(response) THEN "NoSuccessHttp"
    ELSE IF ~response.envelope THEN "Json"
    ELSE "Ok"

\* Mutant: the HTTP status is not looked at.
deserialize_response_nohttp(response) ==
    IF ~response.envelope THEN "Json"
    ELSE IF ~response.success THEN "NoSuccessJson"
    ELSE "Ok"

\* deserialize_response: the HTTP status, then the decoding, then the flag.
deserialize_response(response) ==
    IF ~is_http_success(response) THEN "NoSuccessHttp"
    ELSE IF ~response.envelope THEN "Json"
    ELSE IF ~response.success THEN "NoSuccessJson"
    ELSE "Ok"

\* deserialize_json_value::<Vec<T>>(json.result)
deserialize_json_value(response) == IF response.result THEN "Ok" ELSE "Json"

\* A call came back as an error to main: api_get / api_patch returned Err,
\* or deserialize_response did, or (where the result is decoded)
\* deserialize_json_value did.
CallFailed(response, decoded) ==
    \/ ~response.transport
    \/ deserialize_response(response) # "Ok"
    \/ decoded /\ deserialize_json_value(response) # "Ok"

VARIABLES
    config,         \* the parsed configuration's records, in keys() order
    ipv4, ipv6,     \* what determine_ip returned
    content,        \* provider: record id -> content text
    run,            \* 1: the first run of the program, 2: the run after it
    pc,             \* where main() is
    exit_code,      \* the code main() exited with, 0 when it has not
    response_zones, \* api_get's result for the zone list, None before it
    data_zones,     \* the decoded zone list
    zi,             \* index of config_zone in config
    zone,           \* the matched ListZone
    data_records,   \* the zone's decoded records (with their content then)
    li,             \* index of config_record in the zone's labels
    record_name,    \* the name looked up for config_record
    records,        \* obtain_records' result for record_name
    ri,             \* index of record in records
    out,            \* the lines the latest step printed, in order
    call,           \* the provider call the latest step made, or NoCall
    listed,         \* list_records calls of this run so far
    patched,        \* record id -> patch_record calls of this run so far
    reported,       \* ids of the records this run printed as updated or up to date
    failed,         \* some provider call of this run came back as an error
    prev_reported,  \* the previous run's reported
    prev_failed,    \* the previous run's failed
    prev_returned   \* the previous run returned from main (it did not exit)

vars == <<config, ipv4, ipv6, content, run, pc, exit_code, response_zones, data_zones,
          zi, zone, data_records, li, record_name, records, ri, out, call, listed,
          patched, reported, failed, prev_reported, prev_failed, prev_returned>>

inputs == <<config, ipv4, ipv6>>
loop == <<data_zones, zi, zone, data_records, li, record_name, records, ri>>
counts == <<listed, patched, reported>>
prev == <<prev_reported, prev_failed, prev_returned>>

NoZone == [id |-> "-", name |-> "-"]

\* One line of output: what was printed or which error handle_errors got,
\* and the zone, label and record it is about ("-" where it has none).
Line(kind, z, l, r) == [kind |-> kind, zone |-> z, label |-> l, rid |-> r]

\* Mutant: the payload sets a ttl too.
PatchDnsRecord_ttl(ip) ==
    [comment |-> <<>>, content |-> <<ip>>, name |-> <<>>, proxied |-> <<>>,
     tags |-> <<>>, ttl |-> <<1>>]

\* PatchDnsRecord with only content set (lines 228-235); a GET carries none.
PatchDnsRecord(ip) ==
    [comment |-> None, content |-> Some(ip), name |-> None, proxied |-> None,
     tags |-> None, ttl |-> None]

NoPayload ==
    [comment |-> None, content |-> None, name |-> None, proxied |-> None,
     tags |-> None, ttl |-> None]

\* One provider call with the response it got.
Call(op, zid, rid, payload, response) ==
    [op |-> op, zone_id |-> zid, rid |-> rid, payload |-> payload, response |-> response]

NoCall == Call("none", "-", "-", NoPayload, TransportErr)

Init ==
    /\ config \in Configs
    /\ ipv4 \in Ipv4Results
    /\ ipv6 \in Ipv6Results
    /\ content = InitialContent
    /\ run = 1
    /\ pc = "start"
    /\ exit_code = 0
    /\ response_zones = None
    /\ data_zones = <<>>
    /\ zi = 1
    /\ zone = NoZone
    /\ data_records = <<>>
    /\ li = 1
    /\ record_name = "-"
    /\ records = <<>>
    /\ ri = 1
    /\ out = <<>>
    /\ call = NoCall
    /\ listed = 0
    /\ patched = [r \in RecordIds |-> 0]
    /\ reported = {}
    /\ failed = FALSE
    /\ prev_reported = {}
    /\ prev_failed = FALSE
    /\ prev_returned = FALSE

\* exit(code) after the lines in `lines`.
Exit(code, lines) ==
    /\ pc' = "exited"
    /\ exit_code' = code
    /\ out' = lines

\* handle_errors for each family that is None (lines 61-67).
IpWarnings ==
    (IF ipv4 = None THEN <<Line("err_IPv4", "-", "-", "-")>> ELSE <<>>)
        \o (IF ipv6 = None THEN <<Line("err_IPv6", "-", "-", "-")>> ELSE <<>>)

\* main, lines 59-72: the addresses are determined; with neither, exit(102).
DetermineIp ==
    /\ pc = "start"
    /\ \/ /\ ipv4 = None /\ ipv6 = None
          /\ Exit(102, IpWarnings \o <<Line("neither", "-", "-", "-")>>)
       \/ /\ ~(ipv4 = None /\ ipv6 = None)
          /\ pc' = "list_zones"
          /\ out' = IpWarnings
          /\ UNCHANGED exit_code
    /\ call' = NoCall
    /\ UNCHANGED <<inputs, content, run, response_zones, loop, counts, failed, prev>>

\* main, lines 92-114: the zone list is fetched and decoded, or the run ends.
ListZones ==
    /\ pc = "list_zones"
    /\ \E response \in Responses :
        /\ call' = Call("list_zones", "-", "-", NoPayload, response)
        /\ response_zones' = Some(response)
        /\ failed' = (failed \/ CallFailed(response, TRUE))
        /\ \/ /\ ~response.transport
              /\ Exit(105, <<Line("err_Api", "-", "-", "-")>>)
              /\ UNCHANGED data_zones
           \/ /\ response.transport
              /\ deserialize_response(response) # "Ok"
              /\ Exit(106, <<Line("err_" \o deserialize_response(response), "-", "-", "-")>>)
              /\ UNCHANGED data_zones
           \/ /\ response.transport
              /\ deserialize_response(response) = "Ok"
              /\ deserialize_json_value(response) # "Ok"
              /\ Exit(107, <<Line("err_Json", "-", "-", "-")>>)
              /\ UNCHANGED data_zones
           \/ /\ response.transport
              /\ deserialize_response(response) = "Ok"
              /\ deserialize_json_value(response) = "Ok"
              /\ data_zones' = ProviderZones
              /\ pc' = "zone"
              /\ out' = <<>>
              /\ UNCHANGED exit_code
    /\ UNCHANGED <<inputs, content, run, zi, zone, data_records, li, record_name,
                   records, ri, counts, prev>>

\* ------------------------------------------------------------- the loops

\* Mutant: with no zone of that name, the first zone of the list is taken.
obtain_zone_fallback(data, zone_name) ==
    LET hits == {i \in 1..Len(data) : data[i].name = zone_name}
    IN  IF data = <<>> THEN None
        ELSE IF hits = {} THEN Some(data[1])
        ELSE Some(data[CHOOSE i \in hits : \A j \in hits : i <= j])

\* obtain_zone: the first zone of the list with that very name.
obtain_zone(data, zone_name) ==
    LET hits == {i \in 1..Len(data) : data[i].name = zone_name}
    IN  IF hits = {} THEN None
        ELSE Some(data[CHOOSE i \in hits : \A j \in hits : i <= j])

\* The provider's answer to GET zones/<id>/dns_records: the zone's records
\* with their content now.
list_records(zone_id) ==
    LET mine == SelectSeq(ProviderRecords, LAMBDA r : r.zone_id = zone_id)
    IN  [i \in 1..Len(mine) |->
            [id |-> mine[i].id, name |-> mine[i].name, type_ |-> mine[i].type_,
             content |-> content[mine[i].id], zone_id |-> zone_id]]

\* Mutant: "@" is treated as any other label.
RecordName_noapex(label, zone_name) == label \o "." \o zone_name

\* The name looked up for a label of a zone (lines 171-174).
RecordName(label, zone_name) ==
    IF label = "@" THEN zone_name
    ELSE label \o "." \o zone_name

\* obtain_records: the records with that very name whose type is A or AAAA
\* in any case, in listing order.
obtain_records(data, name) ==
    SelectSeq(data, LAMBDA x :
        /\ x.name = name
        /\ to_uppercase(x.type_) = "A" \/ to_uppercase(x.type_) = "AAAA")

\* Mutant: a record whose family is unresolved gets the other family's
\* address.
DesiredIp_anyfamily(record) ==
    CASE to_uppercase(record.type_) \in {"A", "AAAA"} /\ IsSome(ipv4) /\ ipv6 = None ->
            Some(IpAddrV4(Unwrap(ipv4)))
      [] to_uppercase(record.type_) \in {"A", "AAAA"} /\ IsSome(ipv6) /\ ipv4 = None ->
            Some(IpAddrV6(Unwrap(ipv6)))
      [] to_uppercase(record.type_) = "A" /\ IsSome(ipv4) -> Some(IpAddrV4(Unwrap(ipv4)))
      [] to_uppercase(record.type_) = "AAAA" /\ IsSome(ipv6) -> Some(IpAddrV6(Unwrap(ipv6)))
      [] OTHER -> None

\* The address a record is to hold (lines 197-214): Some(ip) of the record's
\* family, or None when the loop moves on without one.
DesiredIp(record) ==
    CASE to_uppercase(record.type_) = "A" ->
            IF IsSome(ipv4) THEN Some(IpAddrV4(Unwrap(ipv4))) ELSE None
      [] to_uppercase(record.type_) = "AAAA" ->
            IF IsSome(ipv6) THEN Some(IpAddrV6(Unwrap(ipv6))) ELSE None
      [] OTHER -> None

\* What the loop prints when it moves on without an address: nothing for an
\* unresolved family, the NonAddressRecord error for any other type.
NoIpLines(record, z, l) ==
    IF to_uppercase(record.type_) \in {"A", "AAAA"} THEN <<>>
    ELSE <<Line("err_NonAddressRecord", z, l, record.id)>>

\* Mutant: the content is compared with the IPv4 address whatever the record.
UpToDate_v4(record, ip) ==
    LET current_ip == IpAddr_from_str(record.content)
    IN  IsSome(current_ip) /\ IsSome(ipv4) /\ Unwrap(current_ip) = IpAddrV4(Unwrap(ipv4))

\* Lines 221-226: the record's content parses and is the address.
UpToDate(record, ip) ==
    LET current_ip == IpAddr_from_str(record.content)
    IN  IsSome(current_ip) /\ Unwrap(current_ip) = ip

\* The provider changes a record when it answers the PATCH with success.
ProviderApplies(response) ==
    response.transport /\ response.http /\ response.envelope /\ response.success

\* Mutants: only NoSuccessHttp is matched for continue.
AfterListRecords_httponly(e) == IF e = "NoSuccessHttp" THEN "continue" ELSE "exit"

AfterPatch_httponly(e) == IF e = "NoSuccessHttp" THEN "continue" ELSE "exit"

\* The match on deserialize_response's error after list_records (lines
\* 149-152) and after patch_record (lines 256-259): continue, or exit.
AfterListRecords(e) ==
    IF e = "NoSuccessHttp" \/ e = "NoSuccessJson" THEN "continue" ELSE "exit"

AfterPatch(e) ==
    IF e = "NoSuccessHttp" \/ e = "NoSuccessJson" THEN "continue" ELSE "exit"

config_zone == config[zi].zone
config_records == config[zi].labels
config_record == config_records[li]

\* Mutant: a record whose patch came back as an error is tried again.
NextRecord_retry ==
    /\ ri' = IF call'.op = "patch_record" /\ deserialize_response(call'.response) # "Ok"
             THEN ri ELSE ri + 1
    /\ UNCHANGED <<data_zones, zi, zone, data_records, li, record_name, records>>

\* continue in the records loop: the next record of the same label.
NextRecord ==
    /\ ri' = ri + 1
    /\ UNCHANGED <<data_zones, zi, zone, data_records, li, record_name, records>>

\* continue in the zones loop: the next configured zone.
NextZone ==
    /\ zi' = zi + 1
    /\ UNCHANGED <<data_zones, zone, data_records, li, record_name, records, ri>>

\* for config_zone in config.records.keys(), lines 116-168: the zone is
\* matched and its records are fetched; or the zone is skipped; or the run
\* ends.  config.records.get(config_zone) is Some for a key of the map, so
\* the continue of line 167 is never taken.
ZoneStep ==
    /\ pc = "zone"
    /\ zi <= Len(config)
    /\ \/ /\ obtain_zone(data_zones, config_zone) = None
          /\ out' = <<Line("skip_zone", config_zone, "-", "-")>>
          /\ call' = NoCall
          /\ NextZone
          /\ UNCHANGED <<pc, exit_code, listed, failed>>
       \/ /\ obtain_zone(data_zones, config_zone) # None
          /\ LET found == Unwrap(obtain_zone(data_zones, config_zone)) IN
             \E response \in Responses :
                /\ call' = Call("list_records", found.id, "-", NoPayload, response)
                /\ listed' = listed + 1
                /\ failed' = (failed \/ CallFailed(response, TRUE))
                /\ \/ /\ ~response.transport
                      /\ Exit(109, <<Line("err_Api", config_zone, "-", "-")>>)
                      /\ UNCHANGED loop
                   \/ /\ response.transport
                      /\ deserialize_response(response) # "Ok"
                      /\ AfterListRecords(deserialize_response(response)) = "continue"
                      /\ out' = <<Line("err_" \o deserialize_response(response), config_zone, "-", "-")>>
                      /\ NextZone
                      /\ UNCHANGED <<pc, exit_code>>
                   \/ /\ response.transport
                      /\ deserialize_response(response) # "Ok"
                      /\ AfterListRecords(deserialize_response(response)) = "exit"
                      /\ Exit(110, <<Line("err_" \o deserialize_response(response), config_zone, "-", "-")>>)
                      /\ UNCHANGED loop
                   \/ /\ response.transport
                      /\ deserialize_response(response) = "Ok"
                      /\ deserialize_json_value(response) # "Ok"
                      /\ Exit(111, <<Line("err_Json", config_zone, "-", "-")>>)
                      /\ UNCHANGED loop
                   \/ /\ response.transport
                      /\ deserialize_response(response) = "Ok"
                      /\ deserialize_json_value(response) = "Ok"
                      /\ zone' = found
                      /\ data_records' = list_records(found.id)
                      /\ li' = 1
                      /\ pc' = "label"
                      /\ out' = <<>>
                      /\ UNCHANGED <<exit_code, data_zones, zi, record_name, records, ri>>
    /\ UNCHANGED <<inputs, content, run, response_zones, patched, reported, prev>>

\* The zones loop is over: main returns (line 267).
ZonesDone ==
    /\ pc = "zone"
    /\ zi > Len(config)
    /\ pc' = "done"
    /\ out' = <<>>
    /\ call' = NoCall
    /\ UNCHANGED <<inputs, content, run, exit_code, response_zones, loop, counts,
                   failed, prev>>

\* for config_record in config_records, lines 170-184: the label's name is
\* looked up among the zone's records.
LabelStep ==
    /\ pc = "label"
    /\ li <= Len(config_records)
    /\ record_name' = RecordName(config_record, config_zone)
    /\ records' = obtain_records(data_records, record_name')
    /\ \/ /\ records' = <<>>
          /\ out' = <<Line("skip_records", config_zone, config_record, "-")>>
          /\ li' = li + 1
          /\ UNCHANGED <<pc, ri>>
       \/ /\ records' # <<>>
          /\ ri' = 1
          /\ pc' = "record"
          /\ out' = <<>>
          /\ UNCHANGED li
    /\ call' = NoCall
    /\ UNCHANGED <<inputs, content, run, exit_code, response_zones, data_zones, zi, zone,
                   data_records, counts, failed, prev>>

\* The labels loop is over: the next configured zone.
LabelsDone ==
    /\ pc = "label"
    /\ li > Len(config_records)
    /\ NextZone
    /\ pc' = "zone"
    /\ out' = <<>>
    /\ call' = NoCall
    /\ UNCHANGED <<inputs, content, run, exit_code, response_zones, counts, failed, prev>>

\* 'outer: for record in records, lines 186-264: one record is skipped, found
\* up to date, or patched.
RecordStep ==
    /\ pc = "record"
    /\ ri <= Len(records)
    /\ LET record == records[ri] IN
       \/ /\ DesiredIp(record) = None
          /\ out' = NoIpLines(record, config_zone, config_record)
          /\ call' = NoCall
          /\ NextRecord
          /\ UNCHANGED <<pc, exit_code, content, patched, reported, failed>>
       \/ /\ DesiredIp(record) # None
          /\ UpToDate(record, Unwrap(DesiredIp(record)))
          /\ out' = <<Line("up_to_date", config_zone, config_record, record.id)>>
          /\ call' = NoCall
          /\ reported' = reported \cup {record.id}
          /\ NextRecord
          /\ UNCHANGED <<pc, exit_code, content, patched, failed>>
       \/ /\ DesiredIp(record) # None
          /\ ~UpToDate(record, Unwrap(DesiredIp(record)))
          /\ LET ip == Unwrap(DesiredIp(record)) IN
             \E response \in PatchResponses :
                /\ call' = Call("patch_record", zone.id, record.id, PatchDnsRecord(ip), response)
                /\ patched' = [patched EXCEPT ![record.id] = @ + 1]
                /\ failed' = (failed \/ CallFailed(response, FALSE))
                /\ content' = IF ProviderApplies(response)
                              THEN [content EXCEPT ![record.id] = IpAddr_to_string(ip)]
                              ELSE content
                /\ \/ /\ ~response.transport
                      /\ Exit(113, <<Line("err_Api", config_zone, config_record, record.id)>>)
                      /\ UNCHANGED <<loop, reported>>
                   \/ /\ response.transport
                      /\ deserialize_response(response) # "Ok"
                      /\ AfterPatch(deserialize_response(response)) = "continue"
                      /\ out' = <<Line("err_" \o deserialize_response(response),
                                       config_zone, config_record, record.id)>>
                      /\ NextRecord
                      /\ UNCHANGED <<pc, exit_code, reported>>
                   \/ /\ response.transport
                      /\ deserialize_response(response) # "Ok"
                      /\ AfterPatch(deserialize_response(response)) = "exit"
                      /\ Exit(114, <<Line("err_" \o deserialize_response(response),
                                         config_zone, config_record, record.id)>>)
                      /\ UNCHANGED <<loop, reported>>
                   \/ /\ response.transport
                      /\ deserialize_response(response) = "Ok"
                      /\ out' = <<Line("updated", config_zone, config_record, record.id)>>
                      /\ reported' = reported \cup {record.id}
                      /\ NextRecord
                      /\ UNCHANGED <<pc, exit_code>>
    /\ UNCHANGED <<inputs, run, response_zones, listed, prev>>

\* The records loop is over: the next label.
RecordsDone ==
    /\ pc = "record"
    /\ ri > Len(records)
    /\ li' = li + 1
    /\ pc' = "label"
    /\ out' = <<>>
    /\ call' = NoCall
    /\ UNCHANGED <<inputs, content, run, exit_code, response_zones, data_zones, zi, zone,
                   data_records, record_name, records, ri, counts, failed, prev>>

\* The program is run again, with the same configuration and the same
\* resolved addresses, against the provider as the first run left it.
Rerun ==
    /\ pc \in {"done", "exited"}
    /\ run = 1
    /\ run' = 2
    /\ pc' = "start"
    /\ exit_code' = 0
    /\ response_zones' = None
    /\ data_zones' = <<>>
    /\ zi' = 1
    /\ zone' = NoZone
    /\ data_records' = <<>>
    /\ li' = 1
    /\ record_name' = "-"
    /\ records' = <<>>
    /\ ri' = 1
    /\ out' = <<>>
    /\ call' = NoCall
    /\ listed' = 0
    /\ patched' = [r \in RecordIds |-> 0]
    /\ prev_reported' = reported
    /\ prev_failed' = failed
    /\ prev_returned' = (pc = "done")
    /\ reported' = {}
    /\ failed' = FALSE
    /\ UNCHANGED <<inputs, content>>

Next ==
    \/ DetermineIp
    \/ ListZones
    \/ ZoneStep
    \/ ZonesDone
    \/ LabelStep
    \/ LabelsDone
    \/ RecordStep
    \/ RecordsDone

Spec == Init /\ [][Next]_vars

NextTwice ==
    \/ Next
    \/ Rerun

SpecTwice == Init /\ [][NextTwice]_vars

\* ---------------------------------------------------------------- claims

\* A response as the claims speak of it, in terms of its own fields.
TransportFailed(r) == ~r.transport
HttpFailed(r) == r.transport /\ ~r.http
FlagFalse(r) == r.transport /\ r.http /\ r.envelope /\ ~r.success
Accepted(r) == r.transport /\ r.http /\ r.envelope /\ r.success

\* The record types that are A, and AAAA, in some case.
TypesA == {"A", "a"}
TypesAAAA == {"AAAA", "aaaa", "Aaaa", "aAAA", "AAaa"}

\* The name a label stands for, as the specification words it.
Fqdn(l, z) == IF l = "@" THEN z ELSE l \o "." \o z

\* C1 as stated: after any failed patch_record call (transport failure,
\* non-success HTTP status, or success flag false) the run has not ended.
C1_AnyPatchFailureContinues ==
    (/\ call.op = "patch_record"
     /\ \/ TransportFailed(call.response)
        \/ HttpFailed(call.response)
        \/ FlagFalse(call.response))
        => pc # "exited"

\* C1 amended: a patch_record response with a non-success HTTP status or a
\* false success flag leaves the run going with the next record of the same
\* label (zone, label and selection untouched); a transport failure of the
\* call ends the run with exit code 113.
C1_RejectedPatchContinues ==
    [][/\ (call'.op = "patch_record" /\ (HttpFailed(call'.response) \/ FlagFalse(call'.response)))
            => /\ pc' = "record"
               /\ exit_code' = 0
               /\ ri' = ri + 1
               /\ UNCHANGED <<zi, li, records, data_records, data_zones, config>>
       /\ (call'.op = "patch_record" /\ TransportFailed(call'.response))
            => /\ pc' = "exited"
               /\ exit_code' = 113]_vars

\* A patch was rejected and the loop stands at the record after it.
C1_Witness ==
    /\ call.op = "patch_record"
    /\ HttpFailed(call.response) \/ FlagFalse(call.response)
    /\ pc = "record"
    /\ ri <= Len(records)
    /\ zi < Len(config)

\* C2 as stated: after a list_records call that failed in transport or got a
\* non-success response the run has not ended.
C2_AnyListFailureContinues ==
    (/\ call.op = "list_records"
     /\ \/ TransportFailed(call.response)
        \/ HttpFailed(call.response)
        \/ FlagFalse(call.response))
        => pc # "exited"

\* C2 amended: a list_records response with a non-success HTTP status or a
\* false success flag skips the zone (no label of it is processed, no patch
\* is issued, the provider is untouched) and the run goes on with the next
\* configured zone; a transport failure of the call ends the run with 109.
C2_RejectedListSkipsZone ==
    [][/\ (call'.op = "list_records" /\ (HttpFailed(call'.response) \/ FlagFalse(call'.response)))
            => /\ pc' = "zone"
               /\ exit_code' = 0
               /\ zi' = zi + 1
               /\ UNCHANGED <<patched, reported, content, data_zones, config>>
       /\ (call'.op = "list_records" /\ TransportFailed(call'.response))
            => /\ pc' = "exited"
               /\ exit_code' = 109]_vars

\* A zone's listing was rejected and a configured zone follows it.
C2_Witness ==
    /\ call.op = "list_records"
    /\ HttpFailed(call.response) \/ FlagFalse(call.response)
    /\ pc = "zone"
    /\ zi <= Len(config)
    /\ Len(config[zi - 1].labels) > 0

\* C3 as stated, and with a first run that returned from main: the second run
\* issues no patch_record call and every record line it prints is "already up
\* to date".
C3_SecondRunPatchesNothing ==
    (run = 2 /\ prev_returned) =>
        /\ call.op # "patch_record"
        /\ \A i \in DOMAIN out : out[i].rid # "-" => out[i].kind = "up_to_date"

\* C3 amended: when every provider call of the first run succeeded, the
\* second run issues no patch_record call and every record line it prints is
\* "already up to date"; and whatever the first run met, the second run
\* issues no patch_record call for a record the first run reported as updated
\* or as already up to date, and prints such a record as "already up to date".
C3_IdempotentAfterCleanRun ==
    run = 2 =>
        /\ ~prev_failed =>
                /\ call.op # "patch_record"
                /\ \A i \in DOMAIN out : out[i].rid # "-" => out[i].kind = "up_to_date"
        /\ call.op = "patch_record" => call.rid \notin prev_reported
        /\ \A i \in DOMAIN out : out[i].rid \in prev_reported => out[i].kind = "up_to_date"

\* The second run finds up to date a record the first run changed.
C3_Witness ==
    /\ run = 2
    /\ out # <<>>
    /\ out[1].kind = "up_to_date"
    /\ out[1].rid \in prev_reported
    /\ ~prev_failed
    /\ content[out[1].rid] # InitialContent[out[1].rid]

ZoneNames == {data_zones[i].name : i \in 1..Len(data_zones)}

\* C5 as stated, for a zone with labels: a zone that is not found gets one
\* "zone not found" line for every label configured under it.
C5_OneSkipPerLabel ==
    (/\ out # <<>>
     /\ out[1].kind = "skip_zone"
     /\ config[zi - 1].labels # <<>>)
        => Len(out) = Len(config[zi - 1].labels)

\* C5 amended: for a configured zone name that is no name of the zone list,
\* the run prints exactly one "zone not found" line, naming the zone and no
\* label, whatever the number of its labels; it makes no call, changes nothing
\* the other zones' processing reads, and goes on with the next configured
\* zone.
C5_ZoneMissIsolation ==
    [][(/\ pc = "zone"
        /\ zi <= Len(config)
        /\ config[zi].zone \notin ZoneNames
        /\ <<pc, zi, out, call>>' # <<pc, zi, out, call>>)
        => /\ out' = <<Line("skip_zone", config[zi].zone, "-", "-")>>
           /\ call' = NoCall
           /\ pc' = "zone"
           /\ zi' = zi + 1
           /\ UNCHANGED <<exit_code, content, data_zones, listed, patched, reported,
                          config, ipv4, ipv6>>]_vars

\* A zone with two labels was not found, and a configured zone follows it.
C5_Witness ==
    /\ out = <<Line("skip_zone", "c.io", "-", "-")>>
    /\ pc = "zone"
    /\ zi <= Len(config)
    /\ Len(config[zi - 1].labels) = 2

\* C6: the name looked up for label L of zone Z is Z when L is "@" and L.Z
\* otherwise, and the records selected for it are exactly the fetched A and
\* AAAA records whose name is that very string.
C6_RecordNameExact ==
    /\ pc = "record" =>
        LET name == Fqdn(config[zi].labels[li], config[zi].zone)
        IN  /\ record_name = name
            /\ records # <<>>
            /\ \A i \in DOMAIN records : records[i].name = name
            /\ \A j \in DOMAIN data_records :
                (data_records[j].name = name /\ data_records[j].type_ \in TypesA \cup TypesAAAA)
                    => \E i \in DOMAIN records : records[i] = data_records[j]
    /\ (out # <<>> /\ out[1].kind = "skip_records") =>
        LET name == Fqdn(config[zi].labels[li - 1], config[zi].zone)
        IN  /\ record_name = name
            /\ \A j \in DOMAIN data_records :
                ~(data_records[j].name = name /\ data_records[j].type_ \in TypesA \cup TypesAAAA)

\* The label "w" of zone a.io selected its two records and not the record
\* named "W.a.io".
C6_Witness ==
    /\ pc = "record"
    /\ record_name = "w.a.io"
    /\ Len(records) = 2
    /\ \E j \in DOMAIN data_records : data_records[j].name = "W.a.io"

\* C7: when the zone-list fetch fails (transport, HTTP status, undecodable
\* body, false success flag, or a result that is no zone list) the run has
\* ended with a fatal exit code and has issued no list_records and no
\* patch_record call.
C7_ZoneListFailureIsFatal ==
    (/\ IsSome(response_zones)
     /\ ~(Accepted(Unwrap(response_zones)) /\ Unwrap(response_zones).result))
        => /\ pc = "exited"
           /\ exit_code \in {105, 106, 107}
           /\ listed = 0
           /\ \A r \in RecordIds : patched[r] = 0
           /\ call.op = "list_zones"

\* The zone list came back with a false success flag and the run ended.
C7_Witness ==
    /\ IsSome(response_zones)
    /\ FlagFalse(Unwrap(response_zones))
    /\ pc = "exited"
    /\ config # <<>>

\* C8: a record is printed as updated only by the step that issued a
\* patch_record call for that record and got a response with a successful
\* HTTP status and a true success flag.
C8_UpdatedOnlyIfAccepted ==
    \A i \in DOMAIN out :
        out[i].kind = "updated"
            => /\ call.op = "patch_record"
               /\ call.rid = out[i].rid
               /\ Accepted(call.response)

\* A record was printed as updated.
C8_Witness ==
    /\ out # <<>>
    /\ out[1].kind = "updated"
    /\ Accepted(call.response)

\* C9 as stated: no record receives more than one patch_record call in a run.
C9_AtMostOnePatchPerRun ==
    \A r \in RecordIds : patched[r] <= 1

\* The occurrences of labels standing for that name in the configuration.
Occurrences(name) ==
    Cardinality({p \in (1..Len(config)) \X (1..MaxLabels) :
        /\ p[2] <= Len(config[p[1]].labels)
        /\ Fqdn(config[p[1]].labels[p[2]], config[p[1]].zone) = name})

\* C9 amended: a record receives at most one patch_record call for each
\* occurrence of a label standing for its name in the configuration (one per
\* run when the label is listed once); no call is repeated within a pass.
C9_AtMostOnePatchPerOccurrence ==
    \A i \in DOMAIN ProviderRecords :
        patched[ProviderRecords[i].id] <= Occurrences(ProviderRecords[i].name)

\* A label listed twice had its record patched twice.
C9_Witness ==
    \E r \in RecordIds : patched[r] = 2

\* C10: every patch_record call is for a record of the fetched snapshot of
\* the zone matched for the current configured zone, named as a label
\* configured under that zone, of type A or AAAA in some case, whose snapshot
\* content does not parse to the resolved address of its family; its payload
\* sets the content alone, to the resolved address of the record's family.
C10_PatchTargets ==
    call.op = "patch_record" =>
        \E k \in DOMAIN config, j \in DOMAIN data_records :
            LET record == data_records[j]
                wanted == IF record.type_ \in TypesA THEN ipv4 ELSE ipv6
                family == IF record.type_ \in TypesA THEN "V4" ELSE "V6"
            IN  /\ zone.name = config[k].zone
                /\ zone.id = call.zone_id
                /\ \E z \in DOMAIN data_zones : data_zones[z] = zone
                /\ record.id = call.rid
                /\ record.zone_id = zone.id
                /\ \E l \in DOMAIN config[k].labels :
                        record.name = Fqdn(config[k].labels[l], config[k].zone)
                /\ record.type_ \in TypesA \cup TypesAAAA
                /\ IsSome(wanted)
                /\ IpAddr_from_str(record.content)
                        # Some([fam |-> family, addr |-> Unwrap(wanted)])
                /\ call.payload.content = Some([fam |-> family, addr |-> Unwrap(wanted)])
                /\ \A f \in DOMAIN call.payload \ {"content"} : call.payload[f] = None

\* An AAAA record whose content is no address was patched with the IPv6
\* address.
C10_Witness ==
    /\ call.op = "patch_record"
    /\ call.rid = "r6"
    /\ IsSome(ipv4)
    /\ call.payload.content = Some(IpAddrV6(Unwrap(ipv6)))

====
